---------------------------- MODULE Spec2Model ----------------------------
(***************************************************************************)
(* Verification model of ShiftSumma: the attendance-sheet parser           *)
(* (parsers/pdf_parser.py), the shift classifier and the aggregates        *)
(* (analytics/stats.py).                                                   *)
(*                                                                         *)
(* Conventions.                                                            *)
(*  - A Python str is a sequence of characters, each character a one       *)
(*    element atom: digits "0".."9", ":", "-", "x" (any other letter) and  *)
(*    the glyphs of the sheets, written in ASCII: "nyu" (entry label),     *)
(*    "tai" (exit label), "kyu" (absence glyph), ...                       *)
(*  - Python None is the value None below, which no str equals.            *)
(*  - A datetime.date is a record [y, m, d].                               *)
(*  - Page coordinates are integers, in hundredths of a point.             *)
(*  - The non-ASCII labels of the program are romanised:                   *)
(*    AM_half / PM_half for the two half-day slots, Mon..Sun for the       *)
(*    weekday labels.                                                      *)
(***************************************************************************)
EXTENDS Integers, Sequences, FiniteSets, TLC

VARIABLES
    config,        \* ShiftParseConfig of the run: [full_threshold_minutes, half_min_minutes]
    call,          \* the call of the classifier being made: name and arguments
    ret,           \* what that call returned
    wk_current,    \* the date handed to compute_week_index
    wk_index,      \* the week_index computed for wk_current
    wk_prev,       \* the week_index computed for the day before wk_current (0: none)
    df,            \* the ShiftRecord collection handed to the aggregates
    table,         \* the result of weekday_slot_stats_working(df), or NotComputed
    in_rows,       \* the rows handed to build_shift_records_from_rows
    out_records,   \* its outcome: [status |-> "returned", records] or [status |-> "raised"]
    pages,         \* the document: a sequence of pages, each a sequence of tokens
    target_month,  \* the caller's "YYYY-MM" string
    page_no,       \* how many pages read() has processed
    rows,          \* read(): the rows accumulated so far
    bands,         \* the band token lists _extract_page built for the page last processed
    day_columns,   \* the day columns detected on the page last processed
    records,       \* read(): the ShiftRecords of the frame returned (once pc = "done")
    pc             \* read(): "input", "pages", "done"

vars == <<config, call, ret, wk_current, wk_index, wk_prev, df, table, in_rows,
          out_records, pages, target_month, page_no, rows, bands, day_columns,
          records, pc>>

classifyVars == <<config, call, ret>>
weekVars == <<wk_current, wk_index, wk_prev>>
statsVars == <<df, table>>
rowsVars == <<in_rows, out_records>>
pdfVars == <<pages, target_month, page_no, rows, bands, day_columns, records, pc>>

-----------------------------------------------------------------------------
(* Python values *)

None == <<"None">>

NotComputed == <<"NotComputed">>

Min(S) == CHOOSE x \in S : \A y \in S : x <= y

Abs(x) == IF x < 0 THEN -x ELSE x

Digits == {"0", "1", "2", "3", "4", "5", "6", "7", "8", "9"}

DigitChar(n) == <<"0", "1", "2", "3", "4", "5", "6", "7", "8", "9">>[n + 1]

DigitVal(c) == CHOOSE n \in 0..9 : DigitChar(n) = c

\* The code point order of the characters the model uses ('-' < digits < ':' < letters).
Ord(c) ==
    IF c = "-" THEN 45
    ELSE IF c \in Digits THEN 48 + DigitVal(c)
    ELSE IF c = ":" THEN 58
    ELSE 120

\* Python's a <= b on two str: lexicographic by code point, a prefix first.
StrLe(a, b) ==
    LET n == IF Len(a) < Len(b) THEN Len(a) ELSE Len(b)
        diffs == {i \in 1..n : a[i] # b[i]}
    IN  IF diffs = {} THEN Len(a) <= Len(b)
        ELSE Ord(a[Min(diffs)]) < Ord(b[Min(diffs)])

IsDigits(s) == Len(s) > 0 /\ \A i \in 1..Len(s) : s[i] \in Digits

\* int(s) for a str of digits.
RECURSIVE StrToInt(_)
StrToInt(s) ==
    IF Len(s) = 0 THEN 0
    ELSE 10 * StrToInt(SubSeq(s, 1, Len(s) - 1)) + DigitVal(s[Len(s)])

\* s.split(sep) for a one character separator.
RECURSIVE Split(_, _)
Split(s, sep) ==
    LET hits == {i \in 1..Len(s) : s[i] = sep}
    IN  IF hits = {} THEN <<s>>
        ELSE <<SubSeq(s, 1, Min(hits) - 1)>> \o Split(SubSeq(s, Min(hits) + 1, Len(s)), sep)

\* f"{n:02d}" for 0 <= n <= 99.
Fmt02(n) == <<DigitChar(n \div 10), DigitChar(n % 10)>>

\* str(n) for 0 <= n <= 99.
FmtInt(n) == IF n < 10 THEN <<DigitChar(n)>> ELSE Fmt02(n)

-----------------------------------------------------------------------------
(* The calendar: datetime.date, calendar.monthrange *)

DaysInMonthOf(y, m) ==
    IF m = 2
    THEN (IF (y % 4 = 0) /\ ((y % 100 # 0) \/ (y % 400 = 0)) THEN 29 ELSE 28)
    ELSE IF m \in {4, 6, 9, 11} THEN 30 ELSE 31

RECURSIVE DaysBeforeMonth(_, _)
DaysBeforeMonth(y, m) ==
    IF m = 1 THEN 0 ELSE DaysBeforeMonth(y, m - 1) + DaysInMonthOf(y, m - 1)

\* date.toordinal(): 0001-01-01 is day 1.
ToOrdinal(dt) ==
    (dt.y - 1) * 365 + ((dt.y - 1) \div 4) - ((dt.y - 1) \div 100) + ((dt.y - 1) \div 400)
    + DaysBeforeMonth(dt.y, dt.m) + dt.d

\* date.weekday(): Monday is 0.
Weekday(dt) == (ToOrdinal(dt) + 6) % 7

MkDate(y, m, d) == [y |-> y, m |-> m, d |-> d]

NextDate(dt) ==
    IF dt.d < DaysInMonthOf(dt.y, dt.m) THEN MkDate(dt.y, dt.m, dt.d + 1)
    ELSE IF dt.m < 12 THEN MkDate(dt.y, dt.m + 1, 1)
    ELSE MkDate(dt.y + 1, 1, 1)

WEEKDAY_LABELS == <<"Mon", "Tue", "Wed", "Thu", "Fri", "Sat", "Sun">>

WORKING_SLOTS_ORDER == <<"AM_half", "Full", "PM_half">>


-----------------------------------------------------------------------------
(* analytics/stats.py: the shift classifier *)

\* Optional[int]: << >> is None, <<n>> is the int n.
NoInt == << >>

\* Python truthiness of an Optional[str].
Truthy(s) == s # None /\ Len(s) > 0

parse_hhmm_to_minutes(value) ==
    IF value = None THEN NoInt
    ELSE LET parts == Split(value, ":")
         IN  IF Len(parts) = 2 /\ IsDigits(parts[1]) /\ IsDigits(parts[2])
             THEN <<StrToInt(parts[1]) * 60 + StrToInt(parts[2])>>
             ELSE NoInt

first_monday_mut(first_day) ==
    ToOrdinal(first_day) + ((7 - Weekday(first_day)) % 7)

\* first_day - timedelta(days=first_day.weekday()), as an ordinal.
first_monday(first_day) == ToOrdinal(first_day) - Weekday(first_day)

compute_week_index_mut(current) == ((current.d - 1) \div 7) + 1

compute_week_index(current) ==
    LET first_day == MkDate(current.y, current.m, 1)
        week_start == ToOrdinal(current) - Weekday(current)
    IN  ((week_start - first_monday(first_day)) \div 7) + 1

\* determine_slot without the test of line 50.
determine_slot_unguarded(minutes, start_time, end_time, cfg) ==
    IF minutes > cfg.full_threshold_minutes
    THEN [slot |-> "Full", is_half |-> FALSE]
    ELSE IF minutes >= cfg.half_min_minutes /\ Truthy(end_time)
            /\ StrLe(end_time, <<"1", "4", ":", "3", "0">>)
         THEN [slot |-> "AM_half", is_half |-> TRUE]
    ELSE [slot |-> "PM_half", is_half |-> TRUE]

determine_slot_mut(minutes, start_time, end_time, cfg) ==
    IF minutes <= 0 THEN [slot |-> "NA", is_half |-> FALSE]
    ELSE IF minutes >= cfg.full_threshold_minutes
         THEN [slot |-> "Full", is_half |-> FALSE]
    ELSE [slot |-> "PM_half", is_half |-> TRUE]

determine_slot(minutes, start_time, end_time, cfg) ==
    IF minutes <= 0 THEN [slot |-> "NA", is_half |-> FALSE]
    ELSE IF minutes > cfg.full_threshold_minutes
         THEN [slot |-> "Full", is_half |-> FALSE]
    ELSE IF minutes >= cfg.half_min_minutes
         THEN IF Truthy(end_time) /\ StrLe(end_time, <<"1", "4", ":", "3", "0">>)
              THEN [slot |-> "AM_half", is_half |-> TRUE]
              ELSE IF Truthy(start_time) /\ StrLe(<<"1", "3", ":", "3", "0">>, start_time)
                   THEN [slot |-> "PM_half", is_half |-> TRUE]
                   ELSE [slot |-> "PM_half", is_half |-> TRUE]
    ELSE [slot |-> "PM_half", is_half |-> TRUE]

\* Lines 76-83 with the wrap of line 82 taken for minutes <= 0.
shift_minutes_mut(start_time, end_time) ==
    LET start_minutes == parse_hhmm_to_minutes(start_time)
        end_minutes == parse_hhmm_to_minutes(end_time)
    IN  IF start_minutes # NoInt /\ end_minutes # NoInt
        THEN LET minutes == end_minutes[1] - start_minutes[1]
             IN  IF minutes <= 0 THEN minutes + 24 * 60 ELSE minutes
        ELSE 0

\* The minutes build_shift_record computes (lines 76-83).
shift_minutes(start_time, end_time) ==
    LET start_minutes == parse_hhmm_to_minutes(start_time)
        end_minutes == parse_hhmm_to_minutes(end_time)
    IN  IF start_minutes # NoInt /\ end_minutes # NoInt
        THEN LET minutes == end_minutes[1] - start_minutes[1]
             IN  IF minutes < 0 THEN minutes + 24 * 60 ELSE minutes
        ELSE 0

build_shift_record(employee_id, work_date, start_time, end_time, raw_status, cfg) ==
    LET minutes == shift_minutes(start_time, end_time)
        sl == determine_slot(minutes, start_time, end_time, cfg)
        weekday_index == Weekday(work_date)
    IN  [employee_id |-> employee_id,
         date |-> work_date,
         weekday |-> WEEKDAY_LABELS[weekday_index + 1],
         week_index |-> compute_week_index(work_date),
         start_time |-> start_time,
         end_time |-> end_time,
         minutes |-> minutes,
         slot |-> sl.slot,
         is_half |-> sl.is_half,
         is_weekday |-> weekday_index < 5,
         raw_status |-> raw_status]

-----------------------------------------------------------------------------
(* Inputs of the classifier *)

\* Hours 24..MaxHour are strings the time pattern accepts beyond a clock time.
MaxHour == 25

\* None, values int() or split(":") rejects, and "H:MM" for the hours 0, 9, 13, 14, 15,
\* 22 and 24..MaxHour with, for h < 10, also "0H:MM".
TimeInputs ==
    {None, << >>, <<"x">>, <<"9">>, <<"1", ":", "2", ":", "3">>}
    \cup {FmtInt(h) \o <<":">> \o Fmt02(m) :
            h \in {0, 9, 13, 14, 15, 22} \cup (24..MaxHour), m \in {0, 30, 31}}
    \cup {Fmt02(h) \o <<":">> \o Fmt02(m) : h \in {0, 9}, m \in {0, 30, 31}}

MinutesInputs == {-60, 0, 1, 179, 180, 181, 239, 240, 241, 269, 270, 271, 300, 480}

DefaultConfig == [full_threshold_minutes |-> 270, half_min_minutes |-> 180]

\* The sidebar's two number inputs (defaults 270 and 180, step 30); the pair is not validated.
Configs ==
    {[full_threshold_minutes |-> f, half_min_minutes |-> h] : f \in {240, 270}, h \in {180, 240, 300}}

NoCall == [fn |-> "none"]

-----------------------------------------------------------------------------
(* Idle values of the parts a specification does not exercise *)

ClassifyIdle == call = NoCall /\ ret = NotComputed

WeekIdle == wk_current = MkDate(2025, 12, 1) /\ wk_index = 0 /\ wk_prev = 0

StatsIdle == df = << >> /\ table = NotComputed

RowsIdle == in_rows = << >> /\ out_records = [status |-> "not_called"]

PdfIdle ==
    /\ pages = << >>
    /\ target_month = None
    /\ page_no = 0
    /\ rows = << >>
    /\ bands = << >>
    /\ day_columns = << >>
    /\ records = << >>
    /\ pc = "idle"

-----------------------------------------------------------------------------
(* SpecClassify: calls of determine_slot and build_shift_record *)

InitClassify ==
    /\ config \in Configs
    /\ ClassifyIdle /\ WeekIdle /\ StatsIdle /\ RowsIdle /\ PdfIdle

DetermineSlot ==
    /\ call = NoCall
    /\ \E minutes \in MinutesInputs, s \in TimeInputs, e \in TimeInputs :
         /\ call' = [fn |-> "determine_slot", minutes |-> minutes,
                     start_time |-> s, end_time |-> e]
         /\ ret' = determine_slot(minutes, s, e, config)
    /\ UNCHANGED <<config, weekVars, statsVars, rowsVars, pdfVars>>

BuildShiftRecord ==
    /\ call = NoCall
    /\ \E d \in {MkDate(2025, 12, 1), MkDate(2025, 12, 6)}, s \in TimeInputs, e \in TimeInputs :
         /\ call' = [fn |-> "build_shift_record", work_date |-> d,
                     start_time |-> s, end_time |-> e]
         /\ ret' = build_shift_record(<<"1", "2", "3", "4", "5", "6">>, d, s, e, None, config)
    /\ UNCHANGED <<config, weekVars, statsVars, rowsVars, pdfVars>>

\* The call returns to its caller.
ReturnToCaller ==
    /\ call # NoCall
    /\ call' = NoCall
    /\ ret' = NotComputed
    /\ UNCHANGED <<config, weekVars, statsVars, rowsVars, pdfVars>>

NextClassify == DetermineSlot \/ BuildShiftRecord \/ ReturnToCaller

SpecClassify == InitClassify /\ [][NextClassify]_vars

\* C2: every ShiftRecord built by build_shift_record has minutes >= 0.
C2_MinutesNonNegative ==
    call.fn = "build_shift_record" => ret.minutes >= 0

\* C3: with half_min_minutes <= full_threshold_minutes, determine_slot returns
\* (NA, false) for minutes <= 0, (Full, false) for minutes > full_threshold_minutes,
\* and a half-day slot with is_half = true in every other case.
C3_SlotPartition ==
    (call.fn = "determine_slot"
        /\ config.half_min_minutes <= config.full_threshold_minutes) =>
      /\ call.minutes <= 0 => ret = [slot |-> "NA", is_half |-> FALSE]
      /\ call.minutes > config.full_threshold_minutes =>
            ret = [slot |-> "Full", is_half |-> FALSE]
      /\ (call.minutes > 0 /\ call.minutes <= config.full_threshold_minutes) =>
            (ret.slot \in {"AM_half", "PM_half"} /\ ret.is_half = TRUE)

\* A half-day result at the upper edge of the half-day range.
C3_Witness ==
    /\ call.fn = "determine_slot"
    /\ config.half_min_minutes <= config.full_threshold_minutes
    /\ call.minutes = config.full_threshold_minutes
    /\ ret.is_half = TRUE

\* A str of the shape the time pattern accepts: one or two digits, ':', two digits.
IsTimeShaped(s) ==
    /\ s # None
    /\ Len(s) \in {4, 5}
    /\ s[Len(s) - 2] = ":"
    /\ IsDigits(SubSeq(s, 1, Len(s) - 3))
    /\ IsDigits(SubSeq(s, Len(s) - 1, Len(s)))

\* The time of day, in minutes, a time-shaped str denotes.
TimeOfDay(s) ==
    StrToInt(SubSeq(s, 1, Len(s) - 3)) * 60 + StrToInt(SubSeq(s, Len(s) - 1, Len(s)))

\* C4: with half_min_minutes <= minutes <= full_threshold_minutes and an end time
\* written H:MM or HH:MM whose time of day is at or before 14:30, determine_slot
\* returns (AM_half, true).
C4_MorningHalf ==
    (call.fn = "determine_slot"
        /\ config.half_min_minutes <= call.minutes
        /\ call.minutes <= config.full_threshold_minutes
        /\ IsTimeShaped(call.end_time)
        /\ TimeOfDay(call.end_time) <= 14 * 60 + 30) =>
      ret = [slot |-> "AM_half", is_half |-> TRUE]

-----------------------------------------------------------------------------
(* SpecWeek: compute_week_index over consecutive dates *)

\* The dates run from WeekStartDate over WeekYears calendar years.
WeekYears == 6

WeekStartDate == MkDate(2023, 1, 1)

InitWeek ==
    /\ config = DefaultConfig
    /\ wk_current = WeekStartDate
    /\ wk_index = compute_week_index(WeekStartDate)
    /\ wk_prev = 0
    /\ ClassifyIdle /\ StatsIdle /\ RowsIdle /\ PdfIdle

\* The record of the next calendar day is built.
AdvanceDay ==
    /\ NextDate(wk_current).y < WeekStartDate.y + WeekYears
    /\ wk_current' = NextDate(wk_current)
    /\ wk_index' = compute_week_index(NextDate(wk_current))
    /\ wk_prev' = wk_index
    /\ UNCHANGED <<config, classifyVars, statsVars, rowsVars, pdfVars>>

NextWeek == AdvanceDay

SpecWeek == InitWeek /\ [][NextWeek]_vars

\* The Monday of the week of the day with ordinal n.
MondayOnOrBefore(n) == CHOOSE k \in (n - 6)..n : (k + 6) % 7 = 0

MondayOnOrAfter(n) == CHOOSE k \in n..(n + 6) : (k + 6) % 7 = 0

FirstOfMonth(dt) == ToOrdinal(MkDate(dt.y, dt.m, 1))

\* C5 as stated: week_index = floor((M(d) - F)/7) + 1 with F the first Monday on
\* or after the 1st of d's month.
C5_WeekIndexFromMondayAfter ==
    wk_index =
      ((MondayOnOrBefore(ToOrdinal(wk_current)) - MondayOnOrAfter(FirstOfMonth(wk_current)))
         \div 7) + 1

\* C5 amended: week_index = floor((M(d) - F)/7) + 1 with F the Monday on or before
\* the 1st of d's month; the first Monday on or after the 1st has week_index 1 when
\* it is the 1st itself and 2 otherwise.
C5_WeekIndexFromMondayBefore ==
    /\ wk_index =
         ((MondayOnOrBefore(ToOrdinal(wk_current)) - MondayOnOrBefore(FirstOfMonth(wk_current)))
            \div 7) + 1
    /\ ToOrdinal(wk_current) = MondayOnOrAfter(FirstOfMonth(wk_current)) =>
         wk_index = (IF wk_current.d = 1 THEN 1 ELSE 2)

\* The first Monday of a month that does not start on a Monday.
C5_Witness ==
    /\ ToOrdinal(wk_current) = MondayOnOrAfter(FirstOfMonth(wk_current))
    /\ wk_current.d > 1
    /\ wk_index = 2

\* C6: within a month week_index never decreases, is 1 from the 1st up to the first
\* Sunday, grows by exactly 1 at each later Monday, and is always >= 1.
C6_WeekIndexMonotone ==
    /\ wk_index >= 1
    /\ (\A k \in 2..wk_current.d : Weekday(MkDate(wk_current.y, wk_current.m, k)) # 0) =>
         wk_index = 1
    /\ (wk_current.d > 1 /\ wk_prev # 0) =>
         wk_index = wk_prev + (IF Weekday(wk_current) = 0 THEN 1 ELSE 0)

\* The sixth week of a 31-day month: a Monday on which the index grew.
C6_Witness ==
    /\ wk_current.d > 1
    /\ Weekday(wk_current) = 0
    /\ wk_index = wk_prev + 1
    /\ wk_index = 6

-----------------------------------------------------------------------------
(* analytics/stats.py: the weekday x slot table of working records *)

\* A ratio is the exact fraction <<numerator, denominator>>.
RECURSIVE RatSum(_)
RatSum(rs) ==
    IF Len(rs) = 0 THEN <<0, 1>>
    ELSE LET t == RatSum(Tail(rs))
         IN  <<rs[1][1] * t[2] + t[1] * rs[1][2], rs[1][2] * t[2]>>

\* df[(df.minutes > 0) & df.slot.isin(WORKING_SLOTS_ORDER)], then [is_weekday].
working_df(frame) ==
    SelectSeq(frame,
              LAMBDA r : r.minutes > 0
                         /\ r.slot \in {WORKING_SLOTS_ORDER[k] : k \in 1..3}
                         /\ r.is_weekday)

\* groupby(["weekday", "slot"]).size().reindex(full_index, fill_value=0), one cell.
slot_count(frame, weekday, slot) ==
    Cardinality({i \in 1..Len(frame) : frame[i].weekday = weekday /\ frame[i].slot = slot})

weekday_total(frame, weekday) ==
    Cardinality({i \in 1..Len(frame) : frame[i].weekday = weekday})

weekday_slot_stats_working_mut(frame) ==
    IF Len(frame) = 0 THEN << >>
    ELSE LET working == working_df(frame)
         IN  IF Len(working) = 0 THEN << >>
             ELSE [i \in 1..15 |->
                     LET weekday == WEEKDAY_LABELS[((i - 1) \div 3) + 1]
                         slot == WORKING_SLOTS_ORDER[((i - 1) % 3) + 1]
                         count == slot_count(working, weekday, slot)
                     IN  [weekday |-> weekday, slot |-> slot, count |-> count,
                          ratio_in_day |-> <<count, Len(working)>>]]

weekday_slot_stats_working(frame) ==
    IF Len(frame) = 0 THEN << >>
    ELSE LET working == working_df(frame)
         IN  IF Len(working) = 0 THEN << >>
             ELSE [i \in 1..15 |->
                     LET weekday == WEEKDAY_LABELS[((i - 1) \div 3) + 1]
                         slot == WORKING_SLOTS_ORDER[((i - 1) % 3) + 1]
                         count == slot_count(working, weekday, slot)
                         total == weekday_total(working, weekday)
                     IN  [weekday |-> weekday, slot |-> slot, count |-> count,
                          ratio_in_day |->
                             IF total = 0 THEN <<0, 1>>
                             ELSE <<count, IF total > 0 THEN total ELSE 1>>]]

-----------------------------------------------------------------------------
(* SpecStats: a collection of ShiftRecords and its weekday x slot table *)

MaxRecords == 3

\* <<start_time, end_time>>: a full day, a morning, an afternoon, a day off.
StatsShifts ==
    {<<Fmt02(9) \o <<":">> \o Fmt02(0), Fmt02(18) \o <<":">> \o Fmt02(0)>>,
     <<Fmt02(9) \o <<":">> \o Fmt02(0), Fmt02(13) \o <<":">> \o Fmt02(0)>>,
     <<Fmt02(13) \o <<":">> \o Fmt02(30), Fmt02(17) \o <<":">> \o Fmt02(30)>>,
     <<None, None>>}

EmployeeA == <<"1", "2", "3", "4", "5", "6">>

InitStats ==
    /\ config = DefaultConfig
    /\ df = << >>
    /\ table = NotComputed
    /\ ClassifyIdle /\ WeekIdle /\ RowsIdle /\ PdfIdle

\* One more record, built by build_shift_record for a Monday, a Tuesday or a Saturday,
\* joins the collection.
AppendRecord ==
    /\ Len(df) < MaxRecords
    /\ \E d \in {MkDate(2025, 12, 1), MkDate(2025, 12, 2), MkDate(2025, 12, 6)},
          sh \in StatsShifts :
         df' = Append(df, build_shift_record(EmployeeA, d, sh[1], sh[2], None, config))
    /\ table' = NotComputed
    /\ UNCHANGED <<config, classifyVars, weekVars, rowsVars, pdfVars>>

WeekdaySlotStatsWorking ==
    /\ table = NotComputed
    /\ table' = weekday_slot_stats_working(df)
    /\ UNCHANGED <<config, df, classifyVars, weekVars, rowsVars, pdfVars>>

NextStats == AppendRecord \/ WeekdaySlotStatsWorking

SpecStats == InitStats /\ [][NextStats]_vars

\* The table has one row per (weekday Mon..Fri, working slot), in that order.
FifteenRowsInOrder(t) ==
    /\ Len(t) = 15
    /\ \A i \in 1..15 :
         /\ t[i].weekday = WEEKDAY_LABELS[((i - 1) \div 3) + 1]
         /\ t[i].slot = WORKING_SLOTS_ORDER[((i - 1) % 3) + 1]

IsWorkingWeekdayRecord(r) ==
    r.minutes > 0 /\ r.slot \in {"AM_half", "Full", "PM_half"} /\ r.is_weekday

HasWorkingOn(frame, weekday) ==
    \E i \in 1..Len(frame) : IsWorkingWeekdayRecord(frame[i]) /\ frame[i].weekday = weekday

\* The ratios of each weekday sum to 1 when it has a working record, and are 0 otherwise.
RatiosPerWeekday(t, frame) ==
    \A w \in 1..5 :
      LET rs == [k \in 1..3 |-> t[(w - 1) * 3 + k].ratio_in_day]
      IN  IF HasWorkingOn(frame, WEEKDAY_LABELS[w])
          THEN RatSum(rs)[1] = RatSum(rs)[2]
          ELSE \A k \in 1..3 : rs[k][1] = 0

-----------------------------------------------------------------------------
(* datetime.strptime(s, "%Y-%m-%d").date() *)

\* Optional[date]: << >> stands for the ValueError strptime raises, <<dt>> is the date.
\* %Y takes four digits, %m one or two digits naming 1..12, %d one or two digits
\* naming 1..31; the whole str must match and the day must exist in the month.
date_of_parts(parts) ==
    IF /\ Len(parts) = 3
       /\ IsDigits(parts[1]) /\ Len(parts[1]) = 4 /\ StrToInt(parts[1]) >= 1
       /\ IsDigits(parts[2]) /\ Len(parts[2]) <= 2 /\ StrToInt(parts[2]) \in 1..12
       /\ IsDigits(parts[3]) /\ Len(parts[3]) <= 2 /\ StrToInt(parts[3]) \in 1..31
       /\ StrToInt(parts[3]) <= DaysInMonthOf(StrToInt(parts[1]), StrToInt(parts[2]))
    THEN <<MkDate(StrToInt(parts[1]), StrToInt(parts[2]), StrToInt(parts[3]))>>
    ELSE << >>

strptime_ymd(s) == date_of_parts(Split(s, "-"))

-----------------------------------------------------------------------------
(* analytics/stats.py: build_shift_records_from_rows *)

\* A row's "date" is [t |-> "date", v |-> a date], [t |-> "str", v |-> a str] or
\* [t |-> "none"].
DateValue(dt) == [t |-> "date", v |-> dt]

StrValue(s) == [t |-> "str", v |-> s]

NoneValue == [t |-> "none"]

\* The loop of lines 112-126 from row i on, with the records built so far; the
\* ValueError of strptime is not caught and ends the call.
RECURSIVE build_rows_loop(_, _, _, _)
build_rows_loop(rws, i, cfg, acc) ==
    IF i > Len(rws) THEN [status |-> "returned", records |-> acc]
    ELSE LET row == rws[i]
             parsed == IF row.date.t = "str" THEN strptime_ymd(row.date.v) ELSE << >>
         IN  IF row.date.t = "str" /\ parsed = << >> THEN [status |-> "raised"]
             ELSE IF row.date.t = "none" THEN build_rows_loop(rws, i + 1, cfg, acc)
             ELSE build_rows_loop(rws, i + 1, cfg,
                    Append(acc, build_shift_record(row.employee_id,
                                  IF row.date.t = "str" THEN parsed[1] ELSE row.date.v,
                                  row.start_time, row.end_time, row.raw_status, cfg)))

build_shift_records_from_rows(rws, cfg) == build_rows_loop(rws, 1, cfg, << >>)

MkRow(employee_id, date, start_time, end_time, raw_status) ==
    [employee_id |-> employee_id, date |-> date, start_time |-> start_time,
     end_time |-> end_time, raw_status |-> raw_status]

-----------------------------------------------------------------------------
(* SpecRows: rows handed to build_shift_records_from_rows *)

MaxRows == 3

\* A date object, a well formed str, three malformed or impossible ones, None.
RowDateInputs ==
    {DateValue(MkDate(2025, 12, 1)),
     StrValue(<<"2", "0", "2", "5", "-", "1", "2", "-", "0", "2">>),
     StrValue(<<"2", "0", "2", "5", "-", "1", "3", "-", "0", "1">>),
     StrValue(<<"2", "0", "2", "5", "-", "0", "2", "-", "3", "0">>),
     StrValue(<<"1", "2", "x", "0", "1">>),
     NoneValue}

InitRows ==
    /\ config = DefaultConfig
    /\ in_rows = << >>
    /\ out_records = [status |-> "not_called"]
    /\ ClassifyIdle /\ WeekIdle /\ StatsIdle /\ PdfIdle

\* The caller prepares one more row.
AppendRow ==
    /\ out_records.status = "not_called"
    /\ Len(in_rows) < MaxRows
    /\ \E d \in RowDateInputs :
         in_rows' = Append(in_rows,
                           MkRow(EmployeeA, d, Fmt02(9) \o <<":">> \o Fmt02(0),
                                 Fmt02(18) \o <<":">> \o Fmt02(0), None))
    /\ UNCHANGED <<config, out_records, classifyVars, weekVars, statsVars, pdfVars>>

BuildShiftRecordsFromRows ==
    /\ out_records.status = "not_called"
    /\ out_records' = build_shift_records_from_rows(in_rows, config)
    /\ UNCHANGED <<config, in_rows, classifyVars, weekVars, statsVars, pdfVars>>

NextRows == AppendRow \/ BuildShiftRecordsFromRows

SpecRows == InitRows /\ [][NextRows]_vars

\* The rows whose date is usable: a date object or a str naming a calendar date.
HasValidDate(row) ==
    \/ row.date.t = "date"
    \/ (row.date.t = "str" /\ strptime_ymd(row.date.v) # << >>)

\* C8: a row with a malformed or unparseable date str is dropped, no exception is
\* raised, and every row with a valid date still yields its record.
C8_MalformedDateRowDropped ==
    out_records.status # "not_called" =>
      /\ out_records.status = "returned"
      /\ Len(out_records.records) = Cardinality({i \in 1..Len(in_rows) : HasValidDate(in_rows[i])})

-----------------------------------------------------------------------------
(* parsers/pdf_parser.py: tokens and patterns *)

\* A token is [text, x0, x1, top, bottom]; coordinates are hundredths of a point.
\* Centres are kept doubled, so that they stay integers: X2 = x0 + x1, Y2 = top + bottom.
MkToken(text, x0, x1, top, bottom) ==
    [text |-> text, x0 |-> x0, x1 |-> x1, top |-> top, bottom |-> bottom]

X2(w) == w.x0 + w.x1

Y2(w) == w.top + w.bottom

\* 6.0 points.
LINE_TOLERANCE == 600

\* 1.5 points.
COLUMN_MERGE_TOLERANCE == 150

\* round(n / d) to the nearest integer, ties to the even one (Python's round).
RoundDiv(n, d) ==
    IF 2 * (n % d) < d THEN n \div d
    ELSE IF 2 * (n % d) > d THEN (n \div d) + 1
    ELSE IF (n \div d) % 2 = 0 THEN n \div d ELSE (n \div d) + 1

WeekdayGlyphs == {"getsu", "ka", "sui", "moku", "kin", "do", "nichi"}

\* DAY_PATTERN.fullmatch(text): ^(?:[1-9]|[12]\d|3[01])$
DAY_PATTERN(text) ==
    \/ Len(text) = 1 /\ text[1] \in Digits \ {"0"}
    \/ Len(text) = 2 /\ text[1] \in {"1", "2"} /\ text[2] \in Digits
    \/ Len(text) = 2 /\ text[1] = "3" /\ text[2] \in {"0", "1"}

\* EMPLOYEE_ID_PATTERN.fullmatch(text): ^\d{6}$
EMPLOYEE_ID_PATTERN(text) == Len(text) = 6 /\ IsDigits(text)

IsDigitAt(text, i) == i <= Len(text) /\ text[i] \in Digits

IsCharAt(text, i, c) == i <= Len(text) /\ text[i] = c

\* \d\d:\d\d at position i.
TimeAt2(text, i) ==
    /\ IsDigitAt(text, i) /\ IsDigitAt(text, i + 1) /\ IsCharAt(text, i + 2, ":")
    /\ IsDigitAt(text, i + 3) /\ IsDigitAt(text, i + 4)

\* \d:\d\d at position i.
TimeAt1(text, i) ==
    /\ IsDigitAt(text, i) /\ IsCharAt(text, i + 1, ":")
    /\ IsDigitAt(text, i + 2) /\ IsDigitAt(text, i + 3)

TimeStarts(text) == {i \in 1..Len(text) : TimeAt2(text, i) \/ TimeAt1(text, i)}

TimeMatchAt(text, i) ==
    IF TimeAt2(text, i) THEN SubSeq(text, i, i + 4) ELSE SubSeq(text, i, i + 3)

\* TIME_PATTERN.search(text): the leftmost (\d{1,2}:\d{2}), two digits tried first;
\* group(1), or None.
TIME_PATTERN(text) ==
    IF TimeStarts(text) = {} THEN None ELSE TimeMatchAt(text, Min(TimeStarts(text)))

StatusPairAt(text, i) ==
    \/ IsCharAt(text, i, "hi") /\ IsCharAt(text, i + 1, "ban")
    \/ IsCharAt(text, i, "ko") /\ IsCharAt(text, i + 1, "kyu")

StatusStarts(text) ==
    {i \in 1..Len(text) : StatusPairAt(text, i) \/ text[i] \in {"kyu", "slash", "dash"}}

StatusMatchAt(text, i) ==
    IF StatusPairAt(text, i) THEN SubSeq(text, i, i + 1) ELSE SubSeq(text, i, i)

\* STATUS_PATTERN.search(text): the leftmost of hi-ban | ko-kyu | kyu | slash | dash;
\* group(1), or None.
STATUS_PATTERN(text) ==
    IF StatusStarts(text) = {} THEN None ELSE StatusMatchAt(text, Min(StatusStarts(text)))

SeqMin(xs) == Min({xs[i] : i \in 1..Len(xs)})

FirstIndexOf(xs, v) == Min({i \in 1..Len(xs) : xs[i] = v})

RemoveAt(xs, k) == SubSeq(xs, 1, k - 1) \o SubSeq(xs, k + 1, Len(xs))

\* list.sort() of a list of numbers.
RECURSIVE SortedInts(_)
SortedInts(xs) ==
    IF Len(xs) = 0 THEN << >>
    ELSE <<SeqMin(xs)>> \o SortedInts(RemoveAt(xs, FirstIndexOf(xs, SeqMin(xs))))

MinTop(as) == Min({as[i].top : i \in 1..Len(as)})

FirstWithTop(as, t) == Min({i \in 1..Len(as) : as[i].top = t})

\* anchors.sort(key=lambda x: x["top"]): stable, equal tops keep their scan order.
RECURSIVE SortedByTop(_)
SortedByTop(as) ==
    IF Len(as) = 0 THEN << >>
    ELSE <<as[FirstWithTop(as, MinTop(as))]>>
         \o SortedByTop(RemoveAt(as, FirstWithTop(as, MinTop(as))))

\* The elements of a set of numbers in ascending order.
SetToSortedSeq(S) ==
    [i \in 1..Cardinality(S) |-> CHOOSE k \in S : Cardinality({j \in S : j < k}) = i - 1]

-----------------------------------------------------------------------------
(* parsers/pdf_parser.py: the stages of PdfShiftParser *)

\* The merge loop of lines 85-88 over the sorted positions.
RECURSIVE merge_columns(_, _)
merge_columns(positions, merged) ==
    IF Len(positions) = 0 THEN merged
    ELSE merge_columns(Tail(positions),
           IF Len(merged) = 0 \/ Abs(positions[1] - merged[Len(merged)]) > COLUMN_MERGE_TOLERANCE
           THEN Append(merged, positions[1]) ELSE merged)

is_day_word(word) ==
    (Len(word.text) = 1 /\ word.text[1] \in WeekdayGlyphs) \/ DAY_PATTERN(word.text)

\* round(x_center, 2) of each day word.
day_positions(hits) == [i \in 1..Len(hits) |-> RoundDiv(X2(hits[i]), 2)]

_detect_day_columns(words) ==
    merge_columns(SortedInts(day_positions(SelectSeq(words, is_day_word))), << >>)

\* The test of line 97 without its second half.
is_anchor_word_mut(word) == EMPLOYEE_ID_PATTERN(word.text)

is_anchor_word(word) == EMPLOYEE_ID_PATTERN(word.text) /\ word.text[1] # "0"

anchors_of(hits) ==
    [i \in 1..Len(hits) |->
       [employee_id |-> hits[i].text, top |-> hits[i].top, bottom |-> hits[i].bottom]]

_find_employee_anchors(words) == SortedByTop(anchors_of(SelectSeq(words, is_anchor_word)))

\* The indices, in scan order, of the words _slice_tokens keeps.
RECURSIVE slice_indices(_, _, _, _)
slice_indices(words, band_top, band_bottom, i) ==
    IF i > Len(words) THEN << >>
    ELSE (IF 2 * band_top <= Y2(words[i]) /\ Y2(words[i]) <= 2 * band_bottom
          THEN <<i>> ELSE << >>) \o slice_indices(words, band_top, band_bottom, i + 1)

words_at(words, idx) == [k \in 1..Len(idx) |-> words[idx[k]]]

_slice_tokens(words, band_top, band_bottom) ==
    words_at(words, slice_indices(words, band_top, band_bottom, 1))

\* Optional[float]: << >> is None, <<n, d>> is the number n/d, in hundredths of a point.
NoLine == << >>

RECURSIVE SumY2(_)
SumY2(tokens) == IF Len(tokens) = 0 THEN 0 ELSE Y2(tokens[1]) + SumY2(Tail(tokens))

\* The tokens whose text is the one glyph keyword, in scan order.
RECURSIVE keyword_tokens(_, _)
keyword_tokens(tokens, keyword) ==
    IF Len(tokens) = 0 THEN << >>
    ELSE (IF tokens[1].text = <<keyword>> THEN <<tokens[1]>> ELSE << >>)
         \o keyword_tokens(Tail(tokens), keyword)

\* sum(candidates) / len(candidates), or None.
mean_y(candidates) ==
    IF Len(candidates) = 0 THEN NoLine ELSE <<SumY2(candidates), 2 * Len(candidates)>>

_find_line_y(tokens, keyword) == mean_y(keyword_tokens(tokens, keyword))

is_value_word(token) ==
    TIME_PATTERN(token.text) # None \/ STATUS_PATTERN(token.text) # None

\* The bucket keys: y centres rounded to a tenth of a point.
bucket_keys(hits) == {RoundDiv(Y2(hits[i]), 20) : i \in 1..Len(hits)}

\* sorted_lines[:2], each key as a line.
first_two_lines(sorted_lines) ==
    [i \in 1..(IF Len(sorted_lines) < 2 THEN Len(sorted_lines) ELSE 2) |->
       <<sorted_lines[i] * 10, 1>>]

_guess_time_lines(tokens) ==
    first_two_lines(SetToSortedSeq(bucket_keys(SelectSeq(tokens, is_value_word))))

\* Lines 201-209 with the exit line never taken from the second bucket.
resolve_lines_mut(entry_y, exit_y, time_lines) ==
    [entry_y |-> IF entry_y = NoLine /\ Len(time_lines) > 0 THEN time_lines[1] ELSE entry_y,
     exit_y |-> IF exit_y # NoLine THEN exit_y
                ELSE IF entry_y = NoLine /\ Len(time_lines) > 0 THEN time_lines[1]
                ELSE entry_y]

\* Lines 201-209, time_lines being the guess of line 202.
resolve_lines(entry_y, exit_y, time_lines) ==
    [entry_y |-> IF entry_y = NoLine /\ Len(time_lines) > 0 THEN time_lines[1] ELSE entry_y,
     exit_y |-> IF exit_y # NoLine THEN exit_y
                ELSE IF Len(time_lines) > 1 THEN time_lines[2]
                ELSE IF entry_y = NoLine /\ Len(time_lines) > 0 THEN time_lines[1]
                ELSE entry_y]

_resolve_entry_exit_lines(tokens) ==
    resolve_lines(_find_line_y(tokens, "nyu"), _find_line_y(tokens, "tai"),
                  _guess_time_lines(tokens))

\* min(columns, key=lambda c: abs(c - x_center)): the first of the nearest columns.
nearest_column(x2, columns) ==
    columns[Min({i \in 1..Len(columns) :
                   \A j \in 1..Len(columns) :
                     Abs(2 * columns[i] - x2) <= Abs(2 * columns[j] - x2)})]

\* columns.index(nearest) + 1; 0 stands for None (no column).
_nearest_day(x2, columns) ==
    IF Len(columns) = 0 THEN 0 ELSE FirstIndexOf(columns, nearest_column(x2, columns))

NoInfo == [time |-> None, status |-> None]

\* Lines 150-153: the first time and the first status of a day win.
put_value(values, day, time_match, status_match) ==
    [values EXCEPT ![day] =
       [time |-> IF time_match # None /\ @.time = None THEN time_match ELSE @.time,
        status |-> IF status_match # None /\ @.status = None THEN status_match ELSE @.status]]

\* One turn of the loop of lines 136-153; its first test is
\* abs(y_center - line_y) > LINE_TOLERANCE.
collect_token(values, token, line_y, columns) ==
    IF \/ Abs(Y2(token) * line_y[2] - 2 * line_y[1]) > 2 * LINE_TOLERANCE * line_y[2]
       \/ (TIME_PATTERN(token.text) = None /\ STATUS_PATTERN(token.text) = None)
       \/ _nearest_day(X2(token), columns) = 0
    THEN values
    ELSE put_value(values, _nearest_day(X2(token), columns),
                   TIME_PATTERN(token.text), STATUS_PATTERN(token.text))

\* values maps each day to its {time, status}, a field None while the dict lacks the key.
RECURSIVE collect_loop(_, _, _, _, _)
collect_loop(tokens, line_y, columns, i, values) ==
    IF i > Len(tokens) THEN values
    ELSE collect_loop(tokens, line_y, columns, i + 1,
                      collect_token(values, tokens[i], line_y, columns))

_collect_line_values(tokens, line_y, columns) ==
    collect_loop(tokens, line_y, columns, 1, [d \in 1..Len(columns) |-> NoInfo])

\* Lines 186-189: a missing line takes the other one.
_collect_entry_exit_maps(tokens, columns, entry_y, exit_y) ==
    IF entry_y = NoLine /\ exit_y = NoLine THEN [start_map |-> << >>, end_map |-> << >>]
    ELSE [start_map |-> _collect_line_values(tokens,
                          IF entry_y = NoLine THEN exit_y ELSE entry_y, columns),
          end_map |-> _collect_line_values(tokens,
                        IF exit_y = NoLine THEN entry_y ELSE exit_y, columns)]

\* monthrange(int(year), int(month))[1], or 31 on any exception.
days_of_parts(parts) ==
    IF Len(parts) = 2 /\ IsDigits(parts[1]) /\ IsDigits(parts[2])
       /\ StrToInt(parts[2]) \in 1..12
    THEN DaysInMonthOf(StrToInt(parts[1]), StrToInt(parts[2]))
    ELSE 31

_days_in_month(month_str) == days_of_parts(Split(month_str, "-"))

\* dict.get(day, {}) on a line map.
map_get(m, day) == IF day \in DOMAIN m THEN m[day] ELSE NoInfo

\* start_info.get("status") or end_info.get("status")
row_status(start_info, end_info) ==
    IF Truthy(start_info.status) THEN start_info.status ELSE end_info.status

\* The turn of the loop without the skip of lines 232-233.
day_row_mut(employee_id, start_info, end_info, work_date) ==
    IF work_date = << >> THEN << >>
    ELSE <<MkRow(employee_id, DateValue(work_date[1]), start_info.time, end_info.time,
                 row_status(start_info, end_info))>>

\* One turn of the loop of lines 223-249: the row of the day, or nothing.
day_row(employee_id, start_info, end_info, work_date) ==
    IF ~(Truthy(start_info.time) \/ Truthy(end_info.time)
         \/ Truthy(row_status(start_info, end_info)))
    THEN << >>
    ELSE IF work_date = << >> THEN << >>
    ELSE <<MkRow(employee_id, DateValue(work_date[1]), start_info.time, end_info.time,
                 row_status(start_info, end_info))>>

RECURSIVE build_rows_from(_, _, _, _, _, _)
build_rows_from(employee_id, month_str, start_map, end_map, day, max_days) ==
    IF day > max_days THEN << >>
    ELSE day_row(employee_id, map_get(start_map, day), map_get(end_map, day),
                 strptime_ymd(month_str \o <<"-">> \o Fmt02(day)))
         \o build_rows_from(employee_id, month_str, start_map, end_map, day + 1, max_days)

_build_shift_rows(employee_id, month_str, columns, start_map, end_map) ==
    build_rows_from(employee_id, month_str, start_map, end_map, 1, _days_in_month(month_str))

\* Line 49.
band_bottom_of(page, anchors, idx) ==
    IF idx + 1 <= Len(anchors) THEN anchors[idx + 1].top ELSE page.height

\* Lines 53-68: a band without any line is skipped.
rows_of_lines(employee_id, month_str, columns, band_tokens, lines) ==
    IF lines.entry_y = NoLine /\ lines.exit_y = NoLine THEN << >>
    ELSE _build_shift_rows(employee_id, month_str, columns,
           _collect_entry_exit_maps(band_tokens, columns, lines.entry_y, lines.exit_y).start_map,
           _collect_entry_exit_maps(band_tokens, columns, lines.entry_y, lines.exit_y).end_map)

\* Lines 52-68 for one band.
rows_of_band(employee_id, month_str, columns, band_tokens) ==
    rows_of_lines(employee_id, month_str, columns, band_tokens,
                  _resolve_entry_exit_lines(band_tokens))

\* The loop of lines 47-68 from anchor idx on: what it extends parsed_rows with.
RECURSIVE extract_rows(_, _, _, _, _)
extract_rows(page, month_str, columns, anchors, idx) ==
    IF idx > Len(anchors) THEN << >>
    ELSE rows_of_band(anchors[idx].employee_id, month_str, columns,
                      _slice_tokens(page.words, anchors[idx].top,
                                    band_bottom_of(page, anchors, idx)))
         \o extract_rows(page, month_str, columns, anchors, idx + 1)

\* The same loop: per anchor, the indices of the words _slice_tokens puts in its band.
RECURSIVE extract_bands(_, _, _)
extract_bands(page, anchors, idx) ==
    IF idx > Len(anchors) THEN << >>
    ELSE <<slice_indices(page.words, anchors[idx].top, band_bottom_of(page, anchors, idx), 1)>>
         \o extract_bands(page, anchors, idx + 1)

page_result(page, month_str, columns, anchors) ==
    IF Len(columns) = 0
    THEN [rows |-> << >>, bands |-> << >>, day_columns |-> columns]
    ELSE [rows |-> extract_rows(page, month_str, columns, anchors, 1),
          bands |-> extract_bands(page, anchors, 1),
          day_columns |-> columns]

_extract_page(page, month_str) ==
    page_result(page, month_str, _detect_day_columns(page.words),
                _find_employee_anchors(page.words))

-----------------------------------------------------------------------------
(* PdfShiftParser.read as a state machine *)

\* The token source hands over one more token of the last page.
AddWord(alphabet, max_words) ==
    /\ pc = "input"
    /\ Len(pages[Len(pages)].words) < max_words
    /\ \E w \in alphabet :
         pages' = [pages EXCEPT ![Len(pages)].words = Append(@, w)]
    /\ UNCHANGED <<config, target_month, page_no, rows, bands, day_columns, records, pc,
                   classifyVars, weekVars, statsVars, rowsVars>>

\* Line 34 putting the rows of the page in front of the rows so far.
TakePage_mut(got) ==
    /\ rows' = got.rows \o rows
    /\ bands' = got.bands
    /\ day_columns' = got.day_columns

\* rows.extend(...) with what _extract_page found; the model also keeps the page's
\* bands and day columns.
TakePage(got) ==
    /\ rows' = rows \o got.rows
    /\ bands' = got.bands
    /\ day_columns' = got.day_columns

\* One turn of the loop of read(): rows.extend(self._extract_page(page, target_month)).
ExtractPage ==
    /\ pc \in {"input", "pages"}
    /\ page_no < Len(pages)
    /\ TakePage(_extract_page(pages[page_no + 1], target_month))
    /\ page_no' = page_no + 1
    /\ pc' = "pages"
    /\ UNCHANGED <<config, pages, target_month, records,
                   classifyVars, weekVars, statsVars, rowsVars>>

\* After the last page: build_shift_records_from_rows(rows, self.config) and the frame.
BuildRecords ==
    /\ pc = "pages"
    /\ page_no = Len(pages)
    /\ records' = build_shift_records_from_rows(rows, config).records
    /\ pc' = "done"
    /\ UNCHANGED <<config, pages, target_month, page_no, rows, bands, day_columns,
                   classifyVars, weekVars, statsVars, rowsVars>>

\* An A4 page: 842 points high.
MkPage(words) == [words |-> words, height |-> 84200]

Str_2025_12 == <<"2", "0", "2", "5", "-", "1", "2">>

Str_2025_02 == <<"2", "0", "2", "5", "-", "0", "2">>

TimeText(h, m) == FmtInt(h) \o <<":">> \o Fmt02(m)

-----------------------------------------------------------------------------
(* SpecShifts: one employee band over two day columns, cells from the token source *)

MaxCells == 3

\* The x range of day column d of the two-day sheet (centres 105.00 and 135.00).
ColX0(d) == 7000 + 3000 * d

\* The header row (day numbers 1 and 2) and one employee id at the left of its band.
ShiftSheetHeader ==
    <<MkToken(FmtInt(1), ColX0(1), ColX0(1) + 1000, 2000, 3000),
      MkToken(FmtInt(2), ColX0(2), ColX0(2) + 1000, 2000, 3000),
      MkToken(EmployeeA, 1000, 4000, 5000, 6000)>>

\* Cells on the entry line (y centre 55.00) and on the exit line (y centre 75.00).
ShiftCells ==
    {MkToken(TimeText(hm[1], hm[2]), ColX0(d), ColX0(d) + 1000, top, top + 1000) :
        hm \in {<<22, 0>>, <<23, 0>>, <<6, 0>>}, d \in {1, 2}, top \in {5000, 7000}}

InitShifts ==
    /\ config = DefaultConfig
    /\ pages = <<MkPage(ShiftSheetHeader)>>
    /\ target_month = Str_2025_12
    /\ page_no = 0
    /\ rows = << >>
    /\ bands = << >>
    /\ day_columns = << >>
    /\ records = << >>
    /\ pc = "input"
    /\ ClassifyIdle /\ WeekIdle /\ StatsIdle /\ RowsIdle

\* The token source adds up to MaxCells cells to the sheet.
NextShifts ==
    AddWord(ShiftCells, Len(ShiftSheetHeader) + MaxCells) \/ ExtractPage \/ BuildRecords

SpecShifts == InitShifts /\ [][NextShifts]_vars

\* C1: in the rows read() emits for one employee, for each pair of rows of
\* consecutive calendar days without status, with the same start time, the first
\* lasting less than full_threshold_minutes and the second at least that long, the
\* first row carries the second row's end time.
C1_OvernightEndMerged ==
    pc = "done" =>
      \A i \in 1..Len(records), j \in 1..Len(records) :
        (/\ records[i].employee_id = records[j].employee_id
         /\ ToOrdinal(records[j].date) = ToOrdinal(records[i].date) + 1
         /\ records[i].raw_status = None /\ records[j].raw_status = None
         /\ Truthy(records[i].start_time)
         /\ records[i].start_time = records[j].start_time
         /\ shift_minutes(records[i].start_time, records[i].end_time)
              < config.full_threshold_minutes
         /\ shift_minutes(records[j].start_time, records[j].end_time)
              >= config.full_threshold_minutes)
        => records[i].end_time = records[j].end_time

-----------------------------------------------------------------------------
(* SpecBands: one page, employee anchors and cells at the edges of the bands *)

MaxBandTokens == 3

EmployeeB == <<"6", "5", "4", "3", "2", "1">>

\* The header row (day number 1) and the first employee id, its top at 50.00.
BandSheetHeader ==
    <<MkToken(FmtInt(1), ColX0(1), ColX0(1) + 1000, 2000, 3000),
      MkToken(EmployeeA, 1000, 4000, 5000, 6000)>>

\* A second employee id below the first (top 70.00) or level with it (top 50.00), and
\* cells whose y centres are 30.00, 55.00, 70.00, 75.00 and 90.00.
BandTokens ==
    {MkToken(EmployeeB, 1000, 4000, top, top + 1000) : top \in {5000, 7000}}
    \cup {MkToken(TimeText(9, 0), ColX0(1), ColX0(1) + 1000, top, top + 1000) :
            top \in {2500, 5000, 6500, 7000, 8500}}

InitBands ==
    /\ config = DefaultConfig
    /\ pages = <<MkPage(BandSheetHeader)>>
    /\ target_month = Str_2025_12
    /\ page_no = 0
    /\ rows = << >>
    /\ bands = << >>
    /\ day_columns = << >>
    /\ records = << >>
    /\ pc = "input"
    /\ ClassifyIdle /\ WeekIdle /\ StatsIdle /\ RowsIdle

\* The token source adds up to MaxBandTokens tokens to the sheet.
NextBands ==
    AddWord(BandTokens, Len(BandSheetHeader) + MaxBandTokens) \/ ExtractPage \/ BuildRecords

SpecBands == InitBands /\ [][NextBands]_vars

\* The bands that hold word i of the page.
BandsOf(i) == {b \in 1..Len(bands) : \E k \in 1..Len(bands[b]) : bands[b][k] = i}

\* The top of the first of the top-sorted anchors of the page.
FirstAnchorTop(page) == _find_employee_anchors(page.words)[1].top

\* C9: on the page just extracted, every token is in at most one employee band, a
\* token whose y centre equals the next anchor's top included, and every token whose
\* y centre lies between the first anchor's top and the page bottom is in at least
\* one band.
C9_BandsDisjointAndCovering ==
    (pc # "input" /\ page_no >= 1) =>
      \A i \in 1..Len(pages[page_no].words) :
        /\ Cardinality(BandsOf(i)) <= 1
        /\ (/\ 2 * FirstAnchorTop(pages[page_no]) <= Y2(pages[page_no].words[i])
            /\ Y2(pages[page_no].words[i]) <= 2 * pages[page_no].height)
           => Cardinality(BandsOf(i)) >= 1

-----------------------------------------------------------------------------
(* SpecColumns: a header row of day numbers and stray day-like tokens *)

MaxStrays == 2

\* The x range of day column d of a full-month sheet (15.00 apart).
DayColX0(d) == 4000 + 1500 * d

\* The header row: day numbers 1..n.
DayHeader(n) == [d \in 1..n |-> MkToken(FmtInt(d), DayColX0(d), DayColX0(d) + 1000, 2000, 3000)]

\* Weekday glyphs under day 1 (level with it, 1.00, 1.50 and 2.00 to its right), a
\* day-like total in a column of its own, and a time under day 2.
ColumnStrays ==
    {MkToken(<<"getsu">>, DayColX0(1) + dx, DayColX0(1) + dx + 1000, 3200, 4200) :
        dx \in {0, 100, 150, 200}}
    \cup {MkToken(FmtInt(12), 50000, 51000, 5000, 6000),
          MkToken(TimeText(9, 0), DayColX0(2), DayColX0(2) + 1000, 5000, 6000)}

InitColumns ==
    /\ config = DefaultConfig
    /\ \E n \in {2, 28} : pages = <<MkPage(DayHeader(n))>>
    /\ target_month \in {Str_2025_02, Str_2025_12}
    /\ page_no = 0
    /\ rows = << >>
    /\ bands = << >>
    /\ day_columns = << >>
    /\ records = << >>
    /\ pc = "input"
    /\ ClassifyIdle /\ WeekIdle /\ StatsIdle /\ RowsIdle

\* The token source adds up to MaxStrays tokens below the header row (top 20.00).
NextColumns ==
    \/ AddWord(ColumnStrays,
               Cardinality({i \in 1..Len(pages[1].words) : pages[1].words[i].top = 2000})
                 + MaxStrays)
    \/ ExtractPage
    \/ BuildRecords

SpecColumns == InitColumns /\ [][NextColumns]_vars

\* C10: the day columns of the page just extracted are strictly increasing in x, any
\* two adjacent ones are more than the merge tolerance apart, and there are at most as
\* many of them as the target month has days.
C10_DayColumnsBounded ==
    (pc # "input" /\ page_no >= 1) =>
      /\ \A i \in 1..(Len(day_columns) - 1) :
           /\ day_columns[i] < day_columns[i + 1]
           /\ day_columns[i + 1] - day_columns[i] > COLUMN_MERGE_TOLERANCE
      /\ Len(day_columns) <= _days_in_month(target_month)

-----------------------------------------------------------------------------
(* SpecPages: a document of several pages, two anchors a page *)

MaxPages == 2

\* Page p of the document. kind = <<header, second_id, cells>>: the header row (day
\* numbers 1 and 2) is there or not; the token second_id at top 70.00 comes before the
\* employee id at top 50.00 in the text flow; cells lists <<line, day>>, line 1
\* at y centre 55.00 and line 2 at 75.00, every cell reading the time (8 + p):00.
PageOf(p, kind) ==
    MkPage(
      (IF kind[1]
       THEN <<MkToken(FmtInt(1), ColX0(1), ColX0(1) + 1000, 2000, 3000),
              MkToken(FmtInt(2), ColX0(2), ColX0(2) + 1000, 2000, 3000)>>
       ELSE << >>)
      \o <<MkToken(kind[2], 1000, 4000, 7000, 8000),
           MkToken(EmployeeA, 1000, 4000, 5000, 6000)>>
      \o [k \in 1..Len(kind[3]) |->
            MkToken(TimeText(8 + p, 0), ColX0(kind[3][k][2]), ColX0(kind[3][k][2]) + 1000,
                    3000 + 2000 * kind[3][k][1], 4000 + 2000 * kind[3][k][1])])

\* The kinds of page: a second employee, the same employee twice, no header row, and
\* second tokens that are not employee ids (leading zero, five digits, seven digits, "0").
PageKinds ==
    {<<TRUE, EmployeeB, <<<<1, 1>>, <<1, 2>>, <<2, 1>>>>>>,
     <<TRUE, EmployeeB, <<<<1, 2>>, <<2, 1>>>>>>,
     <<TRUE, EmployeeB, << >>>>,
     <<TRUE, EmployeeA, <<<<1, 1>>, <<2, 1>>>>>>,
     <<FALSE, EmployeeB, <<<<1, 1>>, <<1, 2>>, <<2, 1>>, <<2, 2>>>>>>,
     <<TRUE, <<"0", "1", "2", "3", "4", "5">>, <<<<1, 1>>, <<2, 2>>>>>>,
     <<TRUE, <<"1", "2", "3", "4", "5">>, <<<<1, 1>>, <<2, 1>>>>>>,
     <<TRUE, <<"1", "2", "3", "4", "5", "6", "7">>, <<<<2, 2>>>>>>,
     <<TRUE, <<"0">>, <<<<2, 1>>>>>>}

InitPages ==
    /\ config = DefaultConfig
    /\ pages = << >>
    /\ target_month = Str_2025_12
    /\ page_no = 0
    /\ rows = << >>
    /\ bands = << >>
    /\ day_columns = << >>
    /\ records = << >>
    /\ pc = "input"
    /\ ClassifyIdle /\ WeekIdle /\ StatsIdle /\ RowsIdle

\* pdfplumber finds one more page in the file.
AddPage ==
    /\ pc = "input"
    /\ page_no = 0
    /\ Len(pages) < MaxPages
    /\ \E kind \in PageKinds : pages' = Append(pages, PageOf(Len(pages) + 1, kind))
    /\ UNCHANGED <<config, target_month, page_no, rows, bands, day_columns, records, pc,
                   classifyVars, weekVars, statsVars, rowsVars>>

NextPages == AddPage \/ ExtractPage \/ BuildRecords

SpecPages == InitPages /\ [][NextPages]_vars

\* C11: the records read() returns hold at most one record per (employee_id, date).
C11_OneRecordPerKey ==
    pc = "done" =>
      \A i \in 1..Len(records), j \in 1..Len(records) :
        (records[i].employee_id = records[j].employee_id
           /\ records[i].date = records[j].date) => i = j

\* A text of exactly six decimal digits whose first digit is not 0.
SixDigitId(text) ==
    /\ Len(text) = 6
    /\ \A i \in 1..Len(text) : text[i] \in {"0", "1", "2", "3", "4", "5", "6", "7", "8", "9"}
    /\ text[1] # "0"

RecordPage(r) ==
    StrToInt(Split(IF r.start_time # None THEN r.start_time ELSE r.end_time, ":")[1]) - 8

\* The tops of the tokens of page p whose text is the employee id.
AnchorTops(p, employee_id) ==
    {pages[p].words[i].top : i \in {k \in 1..Len(pages[p].words) :
                                      pages[p].words[k].text = employee_id}}

\* Record a was made before record b: on an earlier page, or on the same page in a
\* band whose anchor is higher, or in the same band for an earlier day.
MadeBefore(a, b) ==
    \/ RecordPage(a) < RecordPage(b)
    \/ /\ RecordPage(a) = RecordPage(b)
       /\ \E ta \in AnchorTops(RecordPage(a), a.employee_id),
             tb \in AnchorTops(RecordPage(b), b.employee_id) :
            \/ ta < tb
            \/ ta = tb /\ a.employee_id = b.employee_id /\ a.date.d < b.date.d

\* C15: the records read() returns are in processing order: of two records the
\* earlier comes from an earlier page, or from the same page and a band whose anchor
\* is not lower, or from the same band and a strictly earlier day; a page without day
\* columns contributes no record, and every page contributes as many records as its
\* extraction gives rows, whatever the pages before it held.
C15_ProcessingOrder ==
    pc = "done" =>
      /\ \A i \in 1..Len(records), j \in 1..Len(records) :
           i < j => MadeBefore(records[i], records[j])
      /\ \A p \in 1..Len(pages) :
           /\ Cardinality({i \in 1..Len(records) : RecordPage(records[i]) = p})
                = Len(_extract_page(pages[p], target_month).rows)
           /\ _detect_day_columns(pages[p].words) = << >> =>
                \A i \in 1..Len(records) : RecordPage(records[i]) # p

\* A first page without day columns, and a second page that gave records of two bands.
C15_Witness ==
    /\ pc = "done"
    /\ Len(pages) = 2
    /\ _detect_day_columns(pages[1].words) = << >>
    /\ \E i \in 1..Len(records), j \in 1..Len(records) :
         /\ i < j
         /\ RecordPage(records[i]) = 2 /\ RecordPage(records[j]) = 2
         /\ records[i].employee_id # records[j].employee_id

-----------------------------------------------------------------------------
(* SpecBuildRows: calls of _build_shift_rows on sparse line maps *)

MaxDay == 32

\* target_month values: months of 28, 29 and 31 days, a month written with one digit
\* (strptime reads "2025-2-01" as well), and values that are not a month.
MonthInputs ==
    {Str_2025_02, Str_2025_12,
     <<"2", "0", "2", "4", "-", "0", "2">>,
     <<"2", "0", "2", "5", "-", "2">>,
     <<"2", "0", "2", "5", "-", "1", "3">>,
     <<"2", "0", "2", "5", "-", "0", "0">>,
     <<"2", "0", "2", "5">>,
     <<"2", "5", "-", "1", "2">>,
     <<"2", "0", "2", "5", "/", "1", "2">>,
     <<"x">>}

\* What a line map holds for a day: nothing, a time, a status, or both.
InfoInputs ==
    {[time |-> t, status |-> st] : t \in {None, TimeText(9, 0)}, st \in {None, <<"kyu">>}}

\* The column indices the values are snapped to.
DayInputs == {1, 28, 29, 30, 31} \cup (32..MaxDay)

InitBuildRows ==
    /\ config = DefaultConfig
    /\ ClassifyIdle /\ WeekIdle /\ StatsIdle /\ RowsIdle /\ PdfIdle

\* _build_shift_rows is called with a start map holding one day and an end map
\* holding one day.
BuildShiftRows ==
    /\ call = NoCall
    /\ \E month \in MonthInputs, d1 \in DayInputs, d2 \in DayInputs,
          s \in InfoInputs, e \in InfoInputs :
         /\ call' = [fn |-> "_build_shift_rows", target_month |-> month,
                     start_map |-> [d \in {d1} |-> s], end_map |-> [d \in {d2} |-> e]]
         /\ ret' = _build_shift_rows(EmployeeA, month, << >>,
                                     [d \in {d1} |-> s], [d \in {d2} |-> e])
    /\ UNCHANGED <<config, weekVars, statsVars, rowsVars, pdfVars>>

NextBuildRows == BuildShiftRows \/ ReturnToCaller

SpecBuildRows == InitBuildRows /\ [][NextBuildRows]_vars

\* The number of days of the month a target_month names; 0 when it names none.
DaysOfTargetMonth(month) ==
    IF month = Str_2025_12 THEN 31
    ELSE IF month = Str_2025_02 \/ month = <<"2", "0", "2", "5", "-", "2">> THEN 28
    ELSE IF month = <<"2", "0", "2", "4", "-", "0", "2">> THEN 29
    ELSE 0

\* One of the four values of day d is present in the maps.
HasValue(start_map, end_map, d) ==
    \/ d \in DOMAIN start_map /\ (start_map[d].time # None \/ start_map[d].status # None)
    \/ d \in DOMAIN end_map /\ (end_map[d].time # None \/ end_map[d].status # None)

\* C13: _build_shift_rows returns exactly one row for day d when d is a day of the
\* target month and one of start time, end time, start status, end status of d is
\* present, and no row for any other d (a column index past the month's last day
\* included); a target_month that names no month gives no rows at all.
C13_RowPerDayWithValue ==
    call.fn = "_build_shift_rows" =>
      /\ \A d \in 1..MaxDay :
           Cardinality({i \in 1..Len(ret) : ret[i].date.v.d = d})
             = IF d <= DaysOfTargetMonth(call.target_month)
                  /\ HasValue(call.start_map, call.end_map, d)
               THEN 1 ELSE 0
      /\ \A i \in 1..Len(ret) : ret[i].date.v.d \in 1..DaysOfTargetMonth(call.target_month)
      /\ DaysOfTargetMonth(call.target_month) = 0 => ret = << >>

\* February 2025 with a status on the 28th and a time snapped to column 29: one row.
C13_Witness ==
    /\ call.fn = "_build_shift_rows"
    /\ call.target_month = Str_2025_02
    /\ 28 \in DOMAIN call.start_map /\ call.start_map[28].status # None
    /\ 29 \in DOMAIN call.end_map /\ call.end_map[29].time # None
    /\ Len(ret) = 1

-----------------------------------------------------------------------------
(* SpecLines: one employee band, entry/exit labels and cells from the token source *)

MaxLineTokens == 3

\* Entry labels at the y centres 55.00 and 59.00, exit labels at 75.00 and 79.00, and
\* cells: times under day 1 at 55.00 and 75.00, a status under day 2 at 75.00, times
\* under day 2 at 55.04 and 95.00.
LineTokens ==
    {MkToken(<<"nyu">>, 5000, 6000, top, top + 1000) : top \in {5000, 5400}}
    \cup {MkToken(<<"tai">>, 5000, 6000, top, top + 1000) : top \in {7000, 7400}}
    \cup {MkToken(TimeText(9, 0), ColX0(1), ColX0(1) + 1000, 5000, 6000),
          MkToken(TimeText(17, 0), ColX0(1), ColX0(1) + 1000, 7000, 8000),
          MkToken(<<"kyu">>, ColX0(2), ColX0(2) + 1000, 7000, 8000),
          MkToken(TimeText(9, 0), ColX0(2), ColX0(2) + 1000, 5004, 6004),
          MkToken(TimeText(18, 0), ColX0(2), ColX0(2) + 1000, 9000, 10000)}

\* The token source adds up to MaxLineTokens tokens to the band of the sheet.
NextLines ==
    AddWord(LineTokens, Len(ShiftSheetHeader) + MaxLineTokens) \/ ExtractPage \/ BuildRecords

SpecLines == InitShifts /\ [][NextLines]_vars

\* The tokens of the one band of the page just extracted.
LineBand == words_at(pages[1].words, bands[1])

\* The positions of the tokens whose text is the label.
LabelIdx(tokens, label) == {i \in 1..Len(tokens) : tokens[i].text = <<label>>}

\* The sum of the doubled y centres of the tokens at the positions idx.
RECURSIVE SumCentres(_, _)
SumCentres(tokens, idx) ==
    IF idx = {} THEN 0
    ELSE Y2(tokens[Min(idx)]) + SumCentres(tokens, idx \ {Min(idx)})

\* line is the mean y centre of the tokens at the positions idx.
IsMeanOf(line, tokens, idx) ==
    line # NoLine /\ line[1] * 2 * Cardinality(idx) = SumCentres(tokens, idx) * line[2]

\* The buckets: the y centres, to a tenth of a point, of the tokens holding a time or
\* a status.
ValueKeys(tokens) ==
    {RoundDiv(Y2(tokens[i]), 20) :
       i \in {j \in 1..Len(tokens) :
                TIME_PATTERN(tokens[j].text) # None \/ STATUS_PATTERN(tokens[j].text) # None}}

\* line is the bucket key (tenths of a point).
IsKey(line, key) == line # NoLine /\ line[1] = key * 10 * line[2]

\* The statement of C14 for the tokens of a band, the lines resolved for it, the maps
\* collected on them and the rows the band emitted.
LinesResolved(tokens, lines, maps, band_rows) ==
    /\ LabelIdx(tokens, "nyu") # {} => IsMeanOf(lines.entry_y, tokens, LabelIdx(tokens, "nyu"))
    /\ LabelIdx(tokens, "tai") # {} => IsMeanOf(lines.exit_y, tokens, LabelIdx(tokens, "tai"))
    /\ (LabelIdx(tokens, "nyu") = {} /\ ValueKeys(tokens) # {}) =>
          IsKey(lines.entry_y, Min(ValueKeys(tokens)))
    /\ (LabelIdx(tokens, "tai") = {} /\ Cardinality(ValueKeys(tokens)) >= 2) =>
          IsKey(lines.exit_y, Min(ValueKeys(tokens) \ {Min(ValueKeys(tokens))}))
    /\ (/\ LabelIdx(tokens, "tai") = {}
        /\ Cardinality(ValueKeys(tokens)) < 2
        /\ (LabelIdx(tokens, "nyu") # {} \/ ValueKeys(tokens) # {})) =>
          (lines.exit_y = lines.entry_y /\ maps.start_map = maps.end_map)
    /\ (/\ LabelIdx(tokens, "nyu") = {}
        /\ ValueKeys(tokens) = {}
        /\ LabelIdx(tokens, "tai") # {}) =>
          (lines.entry_y = NoLine /\ maps.start_map = maps.end_map)
    /\ (/\ LabelIdx(tokens, "nyu") = {}
        /\ LabelIdx(tokens, "tai") = {}
        /\ ValueKeys(tokens) = {}) =>
          (lines.entry_y = NoLine /\ lines.exit_y = NoLine /\ band_rows = << >>)

\* C14: in a band, a label that is present gives its line as the mean y centre of its
\* tokens (with both labels present the buckets change nothing); a missing entry line
\* is the first of the y-sorted time/status buckets and a missing exit line the
\* second; when only one line can be resolved it serves as entry and as exit; and a
\* band without label and without time/status token emits no rows.
C14_LineResolution ==
    (pc # "input" /\ page_no = 1) =>
      LinesResolved(LineBand, _resolve_entry_exit_lines(LineBand),
                    _collect_entry_exit_maps(LineBand, day_columns,
                        _resolve_entry_exit_lines(LineBand).entry_y,
                        _resolve_entry_exit_lines(LineBand).exit_y),
                    rows)

\* An entry label, no exit label, and cells on two lines: the exit line is the
\* second bucket and the band emitted a row.
C14_Witness ==
    /\ pc = "done"
    /\ LabelIdx(LineBand, "nyu") # {}
    /\ LabelIdx(LineBand, "tai") = {}
    /\ Cardinality(ValueKeys(LineBand)) = 2
    /\ _resolve_entry_exit_lines(LineBand).exit_y # _resolve_entry_exit_lines(LineBand).entry_y
    /\ records # << >>

\* Entry and exit are the same line: the same number, or one line standing for both.
SameLine(lines) ==
    \/ /\ lines.entry_y # NoLine /\ lines.exit_y # NoLine
       /\ lines.entry_y[1] * lines.exit_y[2] = lines.exit_y[1] * lines.entry_y[2]
    \/ lines.entry_y = NoLine /\ lines.exit_y # NoLine
    \/ lines.entry_y # NoLine /\ lines.exit_y = NoLine

\* C16: in a band whose entry and exit resolve to the same line, the start map and
\* the end map are identical, every row of the band has start_time equal to end_time
\* (or both absent), and its record has minutes = 0, slot NA and is_half false.
C16_SingleLineZeroMinutes ==
    (pc = "done" /\ SameLine(_resolve_entry_exit_lines(LineBand))) =>
      /\ _collect_entry_exit_maps(LineBand, day_columns,
             _resolve_entry_exit_lines(LineBand).entry_y,
             _resolve_entry_exit_lines(LineBand).exit_y).start_map
           = _collect_entry_exit_maps(LineBand, day_columns,
                 _resolve_entry_exit_lines(LineBand).entry_y,
                 _resolve_entry_exit_lines(LineBand).exit_y).end_map
      /\ \A i \in 1..Len(rows) : rows[i].start_time = rows[i].end_time
      /\ Len(records) = Len(rows)
      /\ \A i \in 1..Len(records) :
           /\ records[i].minutes = 0
           /\ records[i].slot = "NA"
           /\ records[i].is_half = FALSE

\* A single-line band emitted a row with a time and a row with only a status.
C16_Witness ==
    /\ pc = "done"
    /\ SameLine(_resolve_entry_exit_lines(LineBand))
    /\ \E i \in 1..Len(records) :
         records[i].start_time # None /\ records[i].start_time = records[i].end_time
    /\ \E i \in 1..Len(records) :
         records[i].start_time = None /\ records[i].raw_status # None

-----------------------------------------------------------------------------
(* analytics/stats.py: weekly_employee_stats *)

\* df.groupby(["employee_id", "week_index"]): the records of one group, in frame order.
group_of(frame, employee_id, week_index) ==
    SelectSeq(frame, LAMBDA r : r.employee_id = employee_id /\ r.week_index = week_index)

\* The group keys in groupby's order: by employee_id (str order), then week_index.
RECURSIVE sorted_keys(_)
sorted_keys(keys) ==
    IF keys = {} THEN << >>
    ELSE LET first == CHOOSE k \in keys :
                        \A o \in keys : \/ k[1] = o[1] /\ k[2] <= o[2]
                                        \/ k[1] # o[1] /\ StrLe(k[1], o[1])
         IN  <<first>> \o sorted_keys(keys \ {first})

\* ("minutes", "sum")
RECURSIVE sum_minutes(_)
sum_minutes(group) ==
    IF Len(group) = 0 THEN 0 ELSE group[1].minutes + sum_minutes(Tail(group))

\* The aggregates of one group (lines 139-150). week_start_date is an ordinal,
\* week_hours is in hundredths of an hour, week_half_ratio is <<numerator, denominator>>.
weekly_row(group) ==
    LET first_date == group[CHOOSE i \in 1..Len(group) :
                              \A j \in 1..Len(group) :
                                ToOrdinal(group[i].date) <= ToOrdinal(group[j].date)].date
        week_workdays == Cardinality({i \in 1..Len(group) : group[i].minutes > 0})
        week_half_days == Cardinality({i \in 1..Len(group) : group[i].is_half})
    IN  [employee_id |-> group[1].employee_id,
         week_index |-> group[1].week_index,
         week_start_date |-> ToOrdinal(first_date) - Weekday(first_date),
         week_minutes |-> sum_minutes(group),
         week_hours |-> RoundDiv(sum_minutes(group) * 100, 60),
         week_workdays |-> week_workdays,
         week_half_days |-> week_half_days,
         week_half_ratio |-> IF week_workdays # 0 THEN <<week_half_days, week_workdays>>
                             ELSE <<0, 1>>]

weekly_employee_stats(frame) ==
    IF Len(frame) = 0 THEN << >>
    ELSE LET keys == sorted_keys({<<frame[i].employee_id, frame[i].week_index>> :
                                    i \in 1..Len(frame)})
         IN  [k \in 1..Len(keys) |-> weekly_row(group_of(frame, keys[k][1], keys[k][2]))]

-----------------------------------------------------------------------------
(* SpecWeekly: a collection of ShiftRecords and its weekly per-employee table *)

\* One more record joins the collection: build_shift_record for one employee on
\* Monday 2025-12-01 or 2025-12-08, or for another employee on 2025-12-01, with a
\* shift of StatsShifts or the times "24:30" and "0:00".
AppendWeekRecord ==
    /\ call = NoCall
    /\ Len(df) < MaxRecords
    /\ \E who \in {<<EmployeeB, MkDate(2025, 12, 1)>>, <<EmployeeB, MkDate(2025, 12, 8)>>,
                   <<EmployeeA, MkDate(2025, 12, 1)>>},
          sh \in StatsShifts \cup {<<TimeText(24, 30), TimeText(0, 0)>>} :
         df' = Append(df, build_shift_record(who[1], who[2], sh[1], sh[2], None, config))
    /\ UNCHANGED <<config, call, ret, table, weekVars, rowsVars, pdfVars>>

WeeklyEmployeeStats ==
    /\ call = NoCall
    /\ call' = [fn |-> "weekly_employee_stats"]
    /\ ret' = weekly_employee_stats(df)
    /\ UNCHANGED <<config, weekVars, statsVars, rowsVars, pdfVars>>

NextWeekly == AppendWeekRecord \/ WeeklyEmployeeStats \/ ReturnToCaller

SpecWeekly == InitClassify /\ [][NextWeekly]_vars

\* The positions in the collection of the records of the group of table row g.
GroupIdx(g) ==
    {i \in 1..Len(df) : df[i].employee_id = g.employee_id /\ df[i].week_index = g.week_index}

\* C17: every record of the collection with is_half = true has minutes > 0, and in
\* the weekly table every group has as many half days as it has half-day records, as
\* many workdays as it has records with minutes > 0, week_half_days <= week_workdays,
\* and a week_half_ratio between 0 and 1 that is 0 when the group has no workdays.
C17_HalfDaysWithinWorkdays ==
    /\ \A i \in 1..Len(df) : df[i].is_half => df[i].minutes > 0
    /\ call.fn = "weekly_employee_stats" =>
         \A k \in 1..Len(ret) :
           /\ ret[k].week_half_days = Cardinality({i \in GroupIdx(ret[k]) : df[i].is_half})
           /\ ret[k].week_workdays = Cardinality({i \in GroupIdx(ret[k]) : df[i].minutes > 0})
           /\ ret[k].week_half_days <= ret[k].week_workdays
           /\ ret[k].week_half_ratio[2] > 0
           /\ 0 <= ret[k].week_half_ratio[1]
           /\ ret[k].week_half_ratio[1] <= ret[k].week_half_ratio[2]
           /\ ret[k].week_workdays = 0 => ret[k].week_half_ratio[1] = 0

\* Two groups in the table: one with a half day and a full day, one whose only
\* record has no minutes.
C17_Witness ==
    /\ call.fn = "weekly_employee_stats"
    /\ Len(ret) = 2
    /\ \E k \in 1..Len(ret) : ret[k].week_half_days = 1 /\ ret[k].week_workdays = 2
    /\ \E k \in 1..Len(ret) : ret[k].week_workdays = 0

=============================================================================
